---- MODULE Spec2Model ----
(***************************************************************************)
(* A model of the rnokpp package (src/rnokpp/__init__.py): parsing and     *)
(* decoding of a 10-digit RNOKPP, its control digit, and the generators.   *)
(*                                                                         *)
(* A text is a sequence of characters, a character a one-character string  *)
(* (a non-ASCII character is written by its code point, "U+0663").  A date *)
(* is its proleptic Gregorian ordinal, as datetime.date.toordinal() gives  *)
(* it, so that date - date is a number of days and date + timedelta is a   *)
(* sum.  A call's outcome is Return(v) or Raise(e), e the exception class. *)
(***************************************************************************)
EXTENDS Integers, Sequences, FiniteSets

VARIABLES
    today,   \* what datetime.date.today() returns now (an ordinal)
    draws,   \* how many values were taken from the random source so far
    pc,      \* "ready": the arguments are chosen; "done": the call returned
    op,      \* the function that was called ("none" before the call)
    text,    \* the rnokpp argument of the decode family
    date,    \* the date argument of generate_rnokpp
    gender,  \* the gender argument of generate_rnokpp
    count,   \* the count argument of generate_random_rnokpp_n
    digits9, \* the list argument of _calculate_control_digit
    ret      \* the outcome of the call

vars == <<today, draws, pc, op, text, date, gender, count, digits9, ret>>

---------------------------------------------------------------------------
(* Outcomes *)

None == "None"

Return(v) == [err |-> None, val |-> v]

Raise(e) == [err |-> e]

Succeeded(r) == r.err = None

---------------------------------------------------------------------------
(* Constants of the package *)

\* datetime.date(1900, 1, 1).toordinal()
BASE_DATE == 693596

MALE == "male"

FEMALE == "female"

Genders == {MALE, FEMALE}

MALE_DIGITS == <<1, 3, 5, 7, 9>>

FEMALE_DIGITS == <<0, 2, 4, 6, 8>>

\* the width of the day count in generate_rnokpp's format, {:05d}
DayCountWidth == 5

---------------------------------------------------------------------------
(* Characters *)

AsciiDigits == <<"0", "1", "2", "3", "4", "5", "6", "7", "8", "9">>

AsciiDigitChars == {AsciiDigits[i] : i \in 1..10}

\* ARABIC-INDIC DIGIT THREE and FULLWIDTH DIGIT FIVE: category Nd, not ASCII
UnicodeDecimalChars == {"U+0663", "U+FF15"}

\* space, signs, a letter, and SUPERSCRIPT TWO (a digit that is not decimal)
NonDecimalChars == {" ", "+", "-", "X", "U+00B2"}

Chars == AsciiDigitChars \cup UnicodeDecimalChars \cup NonDecimalChars

\* str(d) of one digit d in 0..9
DigitChar(d) == AsciiDigits[d + 1]

\* int(c) of a one-character string: Python accepts every Unicode decimal
\* digit (category Nd) and raises ValueError on anything else
int(c) ==
    IF c \in AsciiDigitChars
    THEN Return(CHOOSE d \in 0..9 : AsciiDigits[d + 1] = c)
    ELSE IF c = "U+0663" THEN Return(3)
    ELSE IF c = "U+FF15" THEN Return(5)
    ELSE Raise("ValueError")

---------------------------------------------------------------------------
(* _parse_rnokpp *)

\* [int(c) for c in rnokpp]: ValueError at the first character int rejects
IntList(s) ==
    IF \E i \in 1..Len(s) : ~Succeeded(int(s[i]))
    THEN Raise("ValueError")
    ELSE Return([i \in 1..Len(s) |-> int(s[i]).val])

parse_rnokpp(rnokpp) ==
    LET digits == IntList(rnokpp) IN
    IF ~Succeeded(digits) THEN Raise("StringDoesNotConsistOfDigits")
    ELSE IF Len(digits.val) > 10 THEN Raise("MoreThan10Digits")
    ELSE IF Len(digits.val) < 10 THEN Raise("LessThan10Digits")
    ELSE Return(digits.val)

---------------------------------------------------------------------------
(* _calculate_control_digit; digits[0] of the source is digits[1] here *)

\* the remainder as C and Go take it: the sign of the dividend
TruncatedRemainder(a, b) == IF a >= 0 THEN a % b ELSE -((-a) % b)

\* the same sum with truncating remainders
calculate_control_digit_truncating(digits) ==
    LET checksum ==
            digits[1] * (-1) + digits[2] * 5 + digits[3] * 7 + digits[4] * 9
            + digits[5] * 4 + digits[6] * 6 + digits[7] * 10 + digits[8] * 5
            + digits[9] * 7
    IN TruncatedRemainder(TruncatedRemainder(checksum, 11), 10)

calculate_control_digit(digits) ==
    LET c0 == digits[1] * (-1)
        c1 == c0 + digits[2] * 5
        c2 == c1 + digits[3] * 7
        c3 == c2 + digits[4] * 9
        c4 == c3 + digits[5] * 4
        c5 == c4 + digits[6] * 6
        c6 == c5 + digits[7] * 10
        c7 == c6 + digits[8] * 5
        checksum == c7 + digits[9] * 7
    IN (checksum % 11) % 10

---------------------------------------------------------------------------
(* get_details and the queries derived from it *)

Details(valid, g, birthday) ==
    [valid |-> valid, gender |-> g, birthday |-> birthday]

\* the day count taken as the number of days since the epoch
birthday_of_zero_based(digits) ==
    BASE_DATE + (digits[1] * 10000 + digits[2] * 1000 + digits[3] * 100
                 + digits[4] * 10 + digits[5])

\* days_since_base, less one, added to BASE_DATE
birthday_of(digits) ==
    LET days_since_base ==
            digits[1] * 10000 + digits[2] * 1000 + digits[3] * 100
            + digits[4] * 10 + digits[5] - 1
    IN BASE_DATE + days_since_base

get_details(rnokpp) ==
    LET parsed == parse_rnokpp(rnokpp) IN
    IF ~Succeeded(parsed) THEN parsed
    ELSE
        LET digits == parsed.val
            gender_digit == digits[9]
            control_digit == digits[10]
            calculated_control == calculate_control_digit(SubSeq(digits, 1, 9))
            g == IF gender_digit % 2 = 1 THEN MALE ELSE FEMALE
            birthday == birthday_of(digits)
        IN IF control_digit # calculated_control
           THEN Raise("InvalidControlDigit")
           ELSE Return(Details(TRUE, g, birthday))

\* an except clause that names one class only
RNOKPPErrors_control_only == {"InvalidControlDigit"}

\* the classes `except RNOKPPError` catches
RNOKPPErrors ==
    {"InvalidControlDigit", "NumberGreaterThanZero", "MoreThan10Digits",
     "LessThan10Digits", "StringDoesNotConsistOfDigits", "NotAllowedDate",
     "DateInFuture"}

is_valid(rnokpp) ==
    LET details == get_details(rnokpp) IN
    IF Succeeded(details) THEN Return(details.val.valid)
    ELSE IF details.err \in RNOKPPErrors THEN Return(FALSE)
    ELSE details

is_male(rnokpp) ==
    LET details == get_details(rnokpp) IN
    IF Succeeded(details) THEN Return(details.val.gender = MALE) ELSE details

\* is_male's body under is_female's name
is_female_as_is_male(rnokpp) ==
    LET details == get_details(rnokpp) IN
    IF Succeeded(details) THEN Return(details.val.gender = MALE) ELSE details

is_female(rnokpp) ==
    LET details == get_details(rnokpp) IN
    IF Succeeded(details) THEN Return(details.val.gender = FEMALE) ELSE details

get_gender(rnokpp) ==
    LET details == get_details(rnokpp) IN
    IF Succeeded(details) THEN Return(details.val.gender) ELSE details

---------------------------------------------------------------------------
(* generate_rnokpp *)

RECURSIVE Decimal(_)
\* the decimal digits of n >= 0, most significant first
Decimal(n) ==
    IF n < 10 THEN <<DigitChar(n)>>
    ELSE Append(Decimal(n \div 10), DigitChar(n % 10))

Zeros(k) == [i \in 1..k |-> "0"]

\* f"{n:05d}": zero-padded to the width, sign first, never truncated
Format05d(n) ==
    LET body == Decimal(IF n < 0 THEN -n ELSE n)
        sign == IF n < 0 THEN <<"-">> ELSE <<>>
        pad == DayCountWidth - Len(sign) - Len(body)
    IN sign \o Zeros(IF pad > 0 THEN pad ELSE 0) \o body

RaiseDate(e, d) == [err |-> e, date |-> d]

\* the days since the epoch, without the increment
days_since_base_of_zero_based(d) == d - BASE_DATE

\* (date - BASE_DATE).days, plus one
days_since_base_of(d) == (d - BASE_DATE) + 1

\* the text generate_rnokpp builds once the date is accepted; r1, r2, r3 are
\* the outcomes of random.randint(0, 9) and gi the index random.choice picks
rnokpp_of(d, g, r1, r2, r3, gi) ==
    LET days_since_base == days_since_base_of(d)
        s5 == Format05d(days_since_base)
        s8 == s5 \o <<DigitChar(r1), DigitChar(r2), DigitChar(r3)>>
        gd == IF g = MALE THEN MALE_DIGITS[gi] ELSE FEMALE_DIGITS[gi]
        s9 == Append(s8, DigitChar(gd))
        digits == IntList(s9).val
    IN Append(s9, DigitChar(calculate_control_digit(digits)))

\* today itself refused: >= where the source has >
generate_rnokpp_today_refused(d, g, now, r1, r2, r3, gi) ==
    IF d < BASE_DATE THEN RaiseDate("NotAllowedDate", d)
    ELSE IF d >= now THEN RaiseDate("DateInFuture", d)
    ELSE Return(rnokpp_of(d, g, r1, r2, r3, gi))

\* now is what datetime.date.today() returns inside the call
generate_rnokpp(d, g, now, r1, r2, r3, gi) ==
    IF d < BASE_DATE THEN RaiseDate("NotAllowedDate", d)
    ELSE IF d > now THEN RaiseDate("DateInFuture", d)
    ELSE Return(rnokpp_of(d, g, r1, r2, r3, gi))

\* random draws a call of generate_rnokpp takes: none before a raise
DrawsOf(r) == IF Succeeded(r) THEN 4 ELSE 0

---------------------------------------------------------------------------
(* The random source and the clock, as far as the model explores them *)

\* days the clock may advance while one generate_random_rnokpp call runs
MaxAdvance == 1

\* dates are sampled this many days to each side of a landmark
Near == 1

\* the longest rnokpp text the decode family is given
MaxLen == 12

\* the last date whose day count has DayCountWidth digits (2173-10-14)
Horizon == BASE_DATE + 10^DayCountWidth - 2

\* the epoch day itself, 2000-01-01 (the tests' vector), and the horizon
TodayStarts == {BASE_DATE, BASE_DATE + 36524, Horizon}

\* the clock before a random generator runs: the epoch day and the last day
\* from which it can still advance
RandomTodayStarts == {BASE_DATE, Horizon - MaxAdvance}

\* the days the clock may advance during a call: it is followed up to the
\* horizon and no further
Advances(now) == {a \in 0..MaxAdvance : now + a <= Horizon}

\* random.randint(0, 9), every outcome
RandomDigits == 0..9

\* random.choice of a 5-element list, every index
RandomIndexes == 1..5

\* the outcomes of the same draws that generate_random_rnokpp is explored with
SampleDigits == {0, 9}

SampleIndexes == {1, 5}

\* random.randint(0, days_range): both ends of the range
SampleDays(days_range) == {0, days_range}

---------------------------------------------------------------------------
(* generate_random_rnokpp and generate_random_rnokpp_n *)

\* One call with the clock at `now`: the outcomes [ret, today, draws], today
\* the clock when the call returns and draws the values taken from the random
\* source.  days_range is read first; the clock may advance (adv) before
\* generate_rnokpp reads it again.
\* a range that ends one day after today
days_range_of_past_today(now) == now - BASE_DATE + 1

\* (datetime.date.today() - BASE_DATE).days
days_range_of(now) == now - BASE_DATE

generate_random_rnokpp(now) ==
    LET days_range == days_range_of(now) IN
    { LET random_date == BASE_DATE + random_days
          r == generate_rnokpp(random_date, g, now + adv, r1, r2, r3, gi)
      IN [ret |-> r, today |-> now + adv, draws |-> 2 + DrawsOf(r)]
      : random_days \in SampleDays(days_range), g \in Genders,
        adv \in Advances(now),
        r1 \in SampleDigits, r2 \in SampleDigits, r3 \in SampleDigits,
        gi \in SampleIndexes }

RECURSIVE RandomList(_, _, _, _)
\* [generate_random_rnokpp() for _ in range(n)] continued from the list acc:
\* the first call that raises ends the comprehension with its exception
RandomList(n, acc, now, used) ==
    IF n = 0 THEN {[ret |-> Return(acc), today |-> now, draws |-> used]}
    ELSE UNION {
        IF Succeeded(o.ret)
        THEN RandomList(n - 1, Append(acc, o.ret.val), o.today, used + o.draws)
        ELSE {[ret |-> o.ret, today |-> o.today, draws |-> used + o.draws]}
        : o \in generate_random_rnokpp(now) }

\* count 0 let through: < where the source has <=
generate_random_rnokpp_n_zero_allowed(n, now) ==
    IF n < 0
    THEN {[ret |-> Raise("NumberGreaterThanZero"), today |-> now, draws |-> 0]}
    ELSE RandomList(n, <<>>, now, 0)

generate_random_rnokpp_n(n, now) ==
    IF n <= 0
    THEN {[ret |-> Raise("NumberGreaterThanZero"), today |-> now, draws |-> 0]}
    ELSE RandomList(n, <<>>, now, 0)

---------------------------------------------------------------------------
(* The arguments the calls are explored with *)

\* get_details("3652504575") is valid, male, 2000-01-01 (src/test_rnokpp.py)
Vector == <<"3", "6", "5", "2", "5", "0", "4", "5", "7", "5">>

\* the tests' female vector
VectorFemale == <<"3", "0", "6", "8", "2", "0", "8", "4", "0", "0">>

\* all-digit texts of every length up to MaxLen: Vector, cut or continued
DigitText(n) == [i \in 1..n |-> Vector[((i - 1) % 10) + 1]]

\* s with the character at p replaced by c
Spoil(s, p, c) == [s EXCEPT ![p] = c]

\* all-digit texts and the same with one character that is no ASCII digit
RaggedTexts ==
    {DigitText(n) : n \in 0..MaxLen}
    \cup UNION {{Spoil(DigitText(n), p, c) :
                    p \in 1..n, c \in UnicodeDecimalChars \cup NonDecimalChars} :
                 n \in 1..MaxLen}

\* day counts around every change of the number of digits, the vectors', the
\* largest
DayCounts ==
    {10^k - 1 : k \in 0..DayCountWidth} \cup {10^k : k \in 0..DayCountWidth - 1}
    \cup {30682, 36525}

\* ten ASCII digits: a day count, three digits, a gender digit and a control
\* digit, right or wrong
TenDigitTexts ==
    {Format05d(n) \o <<DigitChar(a), DigitChar(b), DigitChar(c),
                       DigitChar(g), DigitChar(k)>> :
        n \in DayCounts, a \in SampleDigits, b \in SampleDigits,
        c \in SampleDigits, g \in 0..9, k \in 0..9}

Texts ==
    RaggedTexts \cup TenDigitTexts
    \cup {VectorFemale, [Vector EXCEPT ![10] = "6"]}

\* dates within Near days of the epoch, of the first date whose day count
\* fills the width, and of the clock
Dates(now) ==
    {l + d : l \in {BASE_DATE, BASE_DATE + 10^(DayCountWidth - 1) - 1, now},
             d \in -Near..Near}

Counts == -1..2

\* 9-digit lists for _calculate_control_digit
ChecksumDigits == {0, 1, 9}

---------------------------------------------------------------------------
(* The decode family: Init chooses the text, one action per function *)

NoCall ==
    /\ draws = 0
    /\ pc = "ready"
    /\ op = "none"
    /\ ret = Raise("NotCalled")

InitDecode ==
    /\ NoCall
    /\ today \in TodayStarts
    /\ text \in Texts
    /\ date = BASE_DATE
    /\ gender = MALE
    /\ count = 0
    /\ digits9 = <<>>

Returns(name, r) ==
    /\ pc = "ready"
    /\ pc' = "done"
    /\ op' = name
    /\ ret' = r

GetDetails ==
    /\ Returns("get_details", get_details(text))
    /\ UNCHANGED <<today, draws, text, date, gender, count, digits9>>

IsValid ==
    /\ Returns("is_valid", is_valid(text))
    /\ UNCHANGED <<today, draws, text, date, gender, count, digits9>>

IsMale ==
    /\ Returns("is_male", is_male(text))
    /\ UNCHANGED <<today, draws, text, date, gender, count, digits9>>

IsFemale ==
    /\ Returns("is_female", is_female(text))
    /\ UNCHANGED <<today, draws, text, date, gender, count, digits9>>

GetGender ==
    /\ Returns("get_gender", get_gender(text))
    /\ UNCHANGED <<today, draws, text, date, gender, count, digits9>>

NextDecode == GetDetails \/ IsValid \/ IsMale \/ IsFemale \/ GetGender

SpecDecode == InitDecode /\ [][NextDecode]_vars

---------------------------------------------------------------------------
(* _calculate_control_digit alone *)

InitChecksum ==
    /\ NoCall
    /\ today \in {BASE_DATE}
    /\ text = <<>>
    /\ date = BASE_DATE
    /\ gender = MALE
    /\ count = 0
    /\ digits9 \in [1..9 -> ChecksumDigits]

CalculateControlDigit ==
    /\ Returns("_calculate_control_digit",
               Return(calculate_control_digit(digits9)))
    /\ UNCHANGED <<today, draws, text, date, gender, count, digits9>>

NextChecksum == CalculateControlDigit

SpecChecksum == InitChecksum /\ [][NextChecksum]_vars

---------------------------------------------------------------------------
(* generate_rnokpp: Init chooses the clock, the date and the gender *)

InitEncode ==
    /\ NoCall
    /\ today \in TodayStarts
    /\ text = <<>>
    /\ date \in Dates(today)
    /\ gender \in Genders
    /\ count = 0
    /\ digits9 = <<>>

GenerateRnokpp ==
    /\ pc = "ready"
    /\ \E r1 \in RandomDigits, r2 \in RandomDigits, r3 \in RandomDigits,
          gi \in RandomIndexes :
           LET r == generate_rnokpp(date, gender, today, r1, r2, r3, gi) IN
           /\ Returns("generate_rnokpp", r)
           /\ draws' = draws + DrawsOf(r)
    /\ UNCHANGED <<today, text, date, gender, count, digits9>>

NextEncode == GenerateRnokpp

SpecEncode == InitEncode /\ [][NextEncode]_vars

---------------------------------------------------------------------------
(* The random generators: Init chooses the clock and the count *)

InitRandom ==
    /\ NoCall
    /\ today \in RandomTodayStarts
    /\ text = <<>>
    /\ date = BASE_DATE
    /\ gender = MALE
    /\ count \in Counts
    /\ digits9 = <<>>

GenerateRandomRnokpp ==
    /\ pc = "ready"
    /\ \E o \in generate_random_rnokpp(today) :
           /\ Returns("generate_random_rnokpp", o.ret)
           /\ today' = o.today
           /\ draws' = draws + o.draws
    /\ UNCHANGED <<text, date, gender, count, digits9>>

GenerateRandomRnokppN ==
    /\ pc = "ready"
    /\ \E o \in generate_random_rnokpp_n(count, today) :
           /\ Returns("generate_random_rnokpp_n", o.ret)
           /\ today' = o.today
           /\ draws' = draws + o.draws
    /\ UNCHANGED <<text, date, gender, count, digits9>>

NextRandom == GenerateRandomRnokpp \/ GenerateRandomRnokppN

SpecRandom == InitRandom /\ [][NextRandom]_vars

---------------------------------------------------------------------------
(* What the claims are stated with: digits and the control digit as the   *)
(* specification words them, independent of the operators above           *)

Done(name) == pc = "done" /\ op = name

IsAsciiDigit(c) == c \in AsciiDigitChars

AllAsciiDigits(s) == \A i \in 1..Len(s) : IsAsciiDigit(s[i])

AsciiValue(c) == CHOOSE d \in 0..9 : AsciiDigits[d + 1] = c

Weights == <<-1, 5, 7, 9, 4, 6, 10, 5, 7>>

WeightedSum(d) ==
    Weights[1] * d[1] + Weights[2] * d[2] + Weights[3] * d[3]
    + Weights[4] * d[4] + Weights[5] * d[5] + Weights[6] * d[6]
    + Weights[7] * d[7] + Weights[8] * d[8] + Weights[9] * d[9]

\* the remainder r in 0..m-1 with x = q*m + r, whatever the sign of x
Remainder(x, m) == CHOOSE r \in 0..m - 1 : \E q \in -100..100 : x = q * m + r

FirstStage(d) == Remainder(WeightedSum(d), 11)

ExpectedControl(d) == Remainder(FirstStage(d), 10)

\* the value of the decimal numeral s[1..n]
RECURSIVE Numeral(_, _)
Numeral(s, n) ==
    IF n = 0 THEN 0 ELSE 10 * Numeral(s, n - 1) + AsciiValue(s[n])

\* is_valid(t) holds: it returned, and returned True
PassesIsValid(t) == is_valid(t) = Return(TRUE)

---------------------------------------------------------------------------
(* The claims *)

\* C1: for every date from the epoch to today, both genders and every outcome
\* of the random draws, generate_rnokpp returns exactly 10 ASCII digits that
\* get_details decodes to valid, the same gender and the same date.
C1_RoundTrip ==
    (Done("generate_rnokpp") /\ BASE_DATE <= date /\ date <= today)
    => /\ Succeeded(ret)
       /\ Len(ret.val) = 10
       /\ AllAsciiDigits(ret.val)
       /\ get_details(ret.val) = Return(Details(TRUE, gender, date))

\* a female code for the clock's own date, at the horizon, round-trips
C1_Witness ==
    /\ Done("generate_rnokpp")
    /\ date = today /\ today = Horizon /\ gender = FEMALE
    /\ Succeeded(ret)
    /\ get_details(ret.val) = Return(Details(TRUE, FEMALE, Horizon))

\* C2: a text with a character that is no digit 0-9 fails with
\* StringDoesNotConsistOfDigits whatever its length, never with a length
\* error; MoreThan10Digits only for all-digit texts longer than 10,
\* LessThan10Digits only for all-digit texts shorter than 10.
C2_ParsePrecedence ==
    Done("get_details")
    => /\ ~AllAsciiDigits(text) => ret.err = "StringDoesNotConsistOfDigits"
       /\ ret.err = "MoreThan10Digits" => AllAsciiDigits(text) /\ Len(text) > 10
       /\ ret.err = "LessThan10Digits" => AllAsciiDigits(text) /\ Len(text) < 10

\* C3: get_details fails with StringDoesNotConsistOfDigits for every text in
\* which some character is not one of the ASCII digits 0-9.
C3_NonAsciiRejected ==
    (Done("get_details") /\ \E i \in 1..Len(text) : ~IsAsciiDigit(text[i]))
    => ret.err = "StringDoesNotConsistOfDigits"

\* C4: is_valid never raises: it returns True exactly when get_details
\* succeeds on the same text and False when get_details fails, whatever the
\* failure.
C4_IsValidTotal ==
    Done("is_valid")
    => /\ Succeeded(ret)
       /\ ret.val \in BOOLEAN
       /\ ret.val <=> Succeeded(get_details(text))
       /\ get_details(text).err \in
            {"StringDoesNotConsistOfDigits", "MoreThan10Digits",
             "LessThan10Digits", "InvalidControlDigit"}
          => ret = Return(FALSE)

\* is_valid returned False for a text get_details rejects for its length
C4_Witness ==
    /\ Done("is_valid")
    /\ ret = Return(FALSE)
    /\ get_details(text).err = "MoreThan10Digits"

\* C5: generate_rnokpp fails with NotAllowedDate iff date < epoch, with
\* DateInFuture iff date > today, and succeeds for every date from the epoch
\* to today, both ends included, for both genders.
C5_DateErrors ==
    Done("generate_rnokpp")
    => /\ ret.err = "NotAllowedDate" <=> date < BASE_DATE
       /\ ret.err = "DateInFuture" <=> date > today
       /\ Succeeded(ret) <=> (BASE_DATE <= date /\ date <= today)

\* the epoch succeeded on a day when the epoch is also today, so that the day
\* before it and the day after it are the two failures
C5_Witness ==
    /\ Done("generate_rnokpp")
    /\ date = BASE_DATE /\ today = BASE_DATE
    /\ Succeeded(ret)

\* C6: generate_random_rnokpp always succeeds and its result passes is_valid,
\* for every day offset and gender drawn, also when the clock advances
\* between its own read of the clock and generate_rnokpp's.
C6_RandomSucceeds ==
    Done("generate_random_rnokpp")
    => /\ Succeeded(ret)
       /\ PassesIsValid(ret.val)

\* the last day of the range was drawn and the clock advanced before
\* generate_rnokpp read it
C6_Witness ==
    /\ Done("generate_random_rnokpp")
    /\ today = Horizon
    /\ Succeeded(ret)
    /\ get_details(ret.val).val.birthday = Horizon - MaxAdvance

\* C7: generate_random_rnokpp_n fails with NumberGreaterThanZero for every
\* count <= 0, before any random draw; for count >= 1 it returns exactly
\* count texts, each of which passes is_valid.
C7_BatchAllOrNothing ==
    Done("generate_random_rnokpp_n")
    => IF count <= 0
       THEN ret = Raise("NumberGreaterThanZero") /\ draws = 0
       ELSE /\ Succeeded(ret)
            /\ Len(ret.val) = count
            /\ \A i \in 1..Len(ret.val) : PassesIsValid(ret.val[i])

\* two different texts were returned for count 2
C7_Witness ==
    /\ Done("generate_random_rnokpp_n")
    /\ count = 2
    /\ Succeeded(ret)
    /\ Len(ret.val) = 2
    /\ ret.val[1] # ret.val[2]

\* C8: is_male, is_female and get_gender fail exactly as get_details fails;
\* when it succeeds get_gender returns its gender, is_male is true iff that is
\* male and is_female iff it is female, so exactly one of the two is true.
C8_DerivedQueries ==
    LET d == get_details(text) IN
    /\ Done("is_male")
       => IF Succeeded(d)
          THEN /\ ret = Return(d.val.gender = MALE)
               /\ ret.val # is_female(text).val
          ELSE ret = d
    /\ Done("is_female")
       => IF Succeeded(d)
          THEN /\ ret = Return(d.val.gender = FEMALE)
               /\ ret.val # is_male(text).val
          ELSE ret = d
    /\ Done("get_gender")
       => IF Succeeded(d) THEN ret = Return(d.val.gender) ELSE ret = d

\* is_female let get_details' InvalidControlDigit through
C8_Witness ==
    /\ Done("is_female")
    /\ ret = Raise("InvalidControlDigit")

\* C9: for 9 digits 0..9 the control digit is the weighted sum's remainder
\* mod 11, non-negative also for a negative sum, taken mod 10: it is in 0..9,
\* and 0 whenever the first remainder is 10.
C9_ControlDigit ==
    Done("_calculate_control_digit")
    => /\ ret.val = ExpectedControl(digits9)
       /\ ret.val \in 0..9
       /\ FirstStage(digits9) = 10 => ret.val = 0

\* a negative weighted sum whose first remainder is 10
C9_Witness ==
    /\ Done("_calculate_control_digit")
    /\ WeightedSum(digits9) < 0
    /\ FirstStage(digits9) = 10
    /\ ret.val = 0

\* C10: for every text of 10 ASCII digits get_details raises
\* InvalidControlDigit if the last digit is not the control digit of the first
\* nine; otherwise it returns valid = True, male iff the 9th digit is odd, and
\* the epoch plus (N - 1) days, N the first five digits' value, with no range
\* check: the day before the epoch and dates after today are returned, dates
\* generate_rnokpp refuses.
C10_DecodeDigits ==
    (Done("get_details") /\ Len(text) = 10 /\ AllAsciiDigits(text))
    => LET d == [i \in 1..10 |-> AsciiValue(text[i])]
           N == Numeral(text, 5)
           g == IF d[9] \in {1, 3, 5, 7, 9} THEN MALE ELSE FEMALE
       IN IF d[10] # ExpectedControl(SubSeq(d, 1, 9))
          THEN ret = Raise("InvalidControlDigit")
          ELSE /\ ret = Return(Details(TRUE, g, BASE_DATE + (N - 1)))
               /\ (N = 0 \/ BASE_DATE + (N - 1) > today)
                  => \A r1 \in SampleDigits, r2 \in SampleDigits,
                        r3 \in SampleDigits, gi \in SampleIndexes :
                        ~Succeeded(generate_rnokpp(ret.val.birthday, g, today,
                                                   r1, r2, r3, gi))

\* day count 0 decoded to the day before the epoch
C10_Witness ==
    /\ Done("get_details")
    /\ text = Zeros(10)
    /\ ret = Return(Details(TRUE, FEMALE, BASE_DATE - 1))

====
